---------------------------- MODULE Spec2Model ----------------------------
(***************************************************************************)
(* A model of the gRPC-Web client of heartandu/grpc-web-go-client:         *)
(*   - ClientConn.Invoke over the HTTP transport (grpcweb/grpcweb.go),     *)
(*   - serverStream over the HTTP transport (stream.go, httpTransport),    *)
(*   - clientStream / bidiStream over webSocketTransport.                  *)
(* Bytes are numbers 0..255.  A header or trailer text block is modelled   *)
(* with one byte per "key: value\r\n" line (see LineKV); a frame is the    *)
(* flag byte, the 4-byte big-endian length and the payload bytes.          *)
(***************************************************************************)
EXTENDS Integers, Sequences, FiniteSets, TLC

VARIABLES
    shape,        \* which call shape this run exercises
    ctxCanceled,  \* the caller's context has been canceled
    resp,         \* the HTTP response the server gave to the POST (input)
    http,         \* httpTransport: sent, number of POSTs, number of Close calls
    inv,          \* outcome of ClientConn.Invoke
    ss,           \* serverStream fields and the cached response body
    nRecv,        \* serverStream.RecvMsg calls made on a response body
    wst,          \* webSocketTransport: once, resOnce, header, Close calls
    wire,         \* messages written to the socket, in order
    inbox,        \* messages the peer has sent and the client has not read yet
    srv,          \* what the peer has sent so far
    cs,           \* clientStream / bidiStream fields
    pc,           \* per caller: where it is inside a stream operation
    loc,          \* per caller: the locals of the operation in progress
    last,         \* per caller: the result of its last completed operation
    hist,         \* history flags the properties speak about
    fetchCount,   \* calls of webSocketTransport.Header made by clientStream.Header
    codec         \* the codec of the call, and one payload through the frame codec

vars == << shape, ctxCanceled, resp, http, inv, ss, nRecv, wst, wire, inbox,
           srv, cs, pc, loc, last, hist, fetchCount, codec >>

httpVars == << resp, http, inv, ss, nRecv >>
wsVars   == << wst, wire, inbox, srv, cs, fetchCount >>

-----------------------------------------------------------------------------
(* Bounds of the model *)

MaxFrames == 2    \* frames in an HTTP response body
MaxCalls == 4     \* RecvMsg calls on a server stream
MaxInbox == 2     \* frame messages the peer sends on the socket
MaxWire == 3      \* messages the client writes to the socket
MaxPayload == 3   \* bytes of a short payload put through the frame codec

(* Program constants *)

headerLen == 5            \* grpcweb.go: const headerLen
OK == 0                   \* codes.OK
Unknown == 2              \* codes.Unknown
Unavailable == 14         \* codes.Unavailable
StatusOK == 200           \* http.StatusOK
TrailerBit == 128         \* bit 0x80 of the flag byte

Callers == {"a", "b"}

-----------------------------------------------------------------------------
(* Errors, statuses, metadata *)

NilErr == [kind |-> "nil", code |-> 0, msg |-> <<>>]
Err(k, m) == [kind |-> k, code |-> 0, msg |-> m]
ErrEOF == Err("EOF", <<>>)
ErrUnexpectedEOF == Err("UnexpectedEOF", <<>>)

\* status.New(code, msg)
StatusNew(c, m) == [code |-> c, msg |-> m]

\* (*status.Status).Err(): nil for OK
StatusErr(st) ==
    IF st.code = OK THEN NilErr
    ELSE [kind |-> "status", code |-> st.code, msg |-> st.msg]

\* metadata.MD over the keys the model uses; nil is the nil map
NilMD == [nil |-> TRUE, st |-> <<>>, gm |-> <<>>, x |-> <<>>]
NewMD == [nil |-> FALSE, st |-> <<>>, gm |-> <<>>, x |-> <<>>]

\* MD.Append(k, v): the key is lower-cased, the value appended
MDAppend(md, k, v) ==
    CASE k = "grpc-status"  -> [md EXCEPT !.nil = FALSE, !.st = Append(@, v)]
      [] k = "grpc-message" -> [md EXCEPT !.nil = FALSE, !.gm = Append(@, v)]
      [] k = "x-extra"      -> [md EXCEPT !.nil = FALSE, !.x = Append(@, v)]
      [] OTHER              -> md

\* MD.Len(): number of keys
MDLen(md) ==
    (IF md.st = <<>> THEN 0 ELSE 1) + (IF md.gm = <<>> THEN 0 ELSE 1)
      + (IF md.x = <<>> THEN 0 ELSE 1)

\* toMetadata(h): nil for an empty http.Header, otherwise a copy
toMetadata(h) == IF MDLen(h) = 0 THEN NilMD ELSE [h EXCEPT !.nil = FALSE]

\* strconv.ParseUint(s, 10, 32) on the status strings of the model; -1: error
ParseUint(s) ==
    CASE s = "0" -> 0 [] s = "5" -> 5 [] s = "16" -> 16 [] OTHER -> -1

\* strconv.Atoi(s) on the status strings of the model; -1: error
Atoi(s) == ParseUint(s)

\* One text line "key: value\r\n" per byte; a byte outside the table is a
\* line without ": " (skipped by the parsers).
LineKV(b) ==
    CASE b = 200 -> << "grpc-status", "0" >>
      [] b = 205 -> << "grpc-status", "5" >>
      [] b = 216 -> << "grpc-status", "16" >>
      [] b = 199 -> << "grpc-status", "abc" >>
      [] b = 220 -> << "grpc-message", "missing" >>
      [] b = 230 -> << "x-extra", "1" >>
      [] b = 240 -> << "content-type", "application/grpc-web+proto" >>
      [] b = 241 -> << "content-type", "application/grpc-web+json" >>
      [] b = 250 -> << "x-grpc-web", "1" >>
      [] OTHER   -> << "", "" >>

RECURSIVE ParseBlock(_, _)
\* the line scanner of webSocketTransport.Receive and of the trailer parser
ParseBlock(md, bytes) ==
    IF bytes = <<>> THEN md
    ELSE LET kv == LineKV(Head(bytes))
         IN  ParseBlock(IF kv[1] = "" THEN md ELSE MDAppend(md, kv[1], kv[2]),
                        Tail(bytes))

-----------------------------------------------------------------------------
(* Framing *)

\* binary.BigEndian.Uint32.  A length of 2^24 or more (first byte not 0) is
\* represented by 2^24: a length is only compared with 0 and with the number
\* of bytes left, which is far smaller.
BigEndianUint32(b) ==
    IF b[1] > 0 THEN 16777216
    ELSE (b[2] * 256 + b[3]) * 256 + b[4]

\* binary.BigEndian.PutUint32 of uint32(n), for n >= 0
PutUint32(n) ==
    << (n \div 16777216) % 256, (n \div 65536) % 256, (n \div 256) % 256,
       n % 256 >>

\* a header whose length bytes are in little-endian order
headerLittleEndian(bodyLen) ==
    << 0, bodyLen % 256, (bodyLen \div 256) % 256, (bodyLen \div 65536) % 256,
       (bodyLen \div 16777216) % 256 >>

\* header(bodyLen)
header(bodyLen) == << 0 >> \o PutUint32(bodyLen)

\* codec.Marshal / codec.Unmarshal of the selected codec: message 0 is the
\* empty message (no bytes), byte 255 does not decode.
CodecMarshal(m) == IF m = 0 THEN <<>> ELSE << m >>
CodecUnmarshal(b) ==
    IF b = <<>> THEN [ok |-> TRUE, v |-> 0]
    ELSE IF Len(b) = 1 /\ b[1] # 255 THEN [ok |-> TRUE, v |-> b[1]]
    ELSE [ok |-> FALSE, v |-> 0]

\* encodeRequestBody after codec.Marshal: the header, then the body
encodeFrame(body) == header(Len(body)) \o body

\* encodeRequestBody(codec, in)
encodeRequestBody(m) == encodeFrame(CodecMarshal(m))

\* a response frame as the server writes it
EncodeFrame(f) == << f.flag >> \o PutUint32(Len(f.payload)) \o f.payload

RECURSIVE Flatten(_)
Flatten(frames) ==
    IF frames = <<>> THEN <<>>
    ELSE EncodeFrame(Head(frames)) \o Flatten(Tail(frames))

Drop(s, n) == SubSeq(s, n + 1, Len(s))
Take(s, n) == SubSeq(s, 1, n)

\* parser.ParseResponseHeader: exactly 5 bytes, MalformedFrame when fewer are
\* left; a data frame of length 0 is the end of the stream
ParseResponseHeader(buf) ==
    IF Len(buf) < headerLen THEN
        [err |-> Err("MalformedFrame", <<>>), flag |-> 0, length |-> 0,
         rest |-> <<>>]
    ELSE LET length == BigEndianUint32(SubSeq(buf, 2, 5))
             flag == buf[1]
         IN  [err |-> IF length = 0 /\ (flag \div TrailerBit) % 2 = 0
                      THEN ErrEOF ELSE NilErr,
              flag |-> flag, length |-> length, rest |-> Drop(buf, headerLen)]

\* Header.IsTrailerHeader / Header.IsMessageHeader
IsTrailerHeader(h) == (h.flag \div TrailerBit) % 2 = 1
IsMessageHeader(h) == ~IsTrailerHeader(h)

\* parser.ParseLengthPrefixedMessage: exactly length bytes
ParseLengthPrefixedMessage(buf, length) ==
    IF Len(buf) < length THEN
        [err |-> Err("Truncated", <<>>), msg |-> <<>>, rest |-> <<>>]
    ELSE [err |-> NilErr, msg |-> Take(buf, length), rest |-> Drop(buf, length)]

\* the Status of a metadata block: grpc-status (first value) and grpc-message
StatusOfMD(md) ==
    IF md.st = <<>> THEN StatusNew(Unknown, << "missing grpc-status" >>)
    ELSE IF ParseUint(md.st[1]) < 0 THEN
        StatusNew(Unknown, << "bad grpc-status", md.st[1] >>)
    ELSE StatusNew(ParseUint(md.st[1]),
                   IF md.gm = <<>> THEN <<>> ELSE << md.gm[1] >>)

\* parser.ParseStatusAndTrailer: length bytes of text lines
ParseStatusAndTrailer(buf, length) ==
    IF Len(buf) < length THEN
        [err |-> Err("Truncated", <<>>), status |-> StatusNew(Unknown, <<>>),
         trailer |-> NilMD, rest |-> <<>>]
    ELSE LET md == ParseBlock(NewMD, Take(buf, length))
         IN  [err |-> NilErr, status |-> StatusOfMD(md), trailer |-> md,
              rest |-> Drop(buf, length)]

-----------------------------------------------------------------------------
(* The HTTP transport and what the server answers *)

\* response frames the server may put in a body or a socket message
DataFrames ==
    { [flag |-> 0, payload |-> <<>>], [flag |-> 0, payload |-> << 7 >>],
      [flag |-> 1, payload |-> << 8 >>], [flag |-> 2, payload |-> << 7 >>] }
TrailerFrames ==
    { [flag |-> 128, payload |-> << 200, 230 >>],
      [flag |-> 128, payload |-> << 205, 220 >>] }
Frames == DataFrames \cup TrailerFrames

RECURSIVE FrameSeqs(_)
FrameSeqs(n) ==
    IF n = 0 THEN { <<>> }
    ELSE FrameSeqs(n - 1) \cup
         { Append(s, f) : s \in { q \in FrameSeqs(n - 1) : Len(q) = n - 1 },
                          f \in Frames }

\* http.Header of the response (keys as MD keys)
HttpHeaders ==
    { [NewMD EXCEPT !.nil = TRUE],
      [NewMD EXCEPT !.x = << "1" >>],
      [NewMD EXCEPT !.st = << "0" >>],
      [NewMD EXCEPT !.st = << "16" >>],
      [NewMD EXCEPT !.st = << "5" >>, !.gm = << "missing" >>],
      [NewMD EXCEPT !.st = << "abc" >>] }

\* what client.Do gives: a connection failure, or a response with a status
\* code, headers and a body
Responses ==
    { [kind |-> "connErr", code |-> 0, hdr |-> NilMD, frames |-> <<>>] }
    \cup { [kind |-> "response", code |-> 503, hdr |-> h, frames |-> <<>>] :
             h \in HttpHeaders }
    \cup { [kind |-> "response", code |-> StatusOK, hdr |-> h, frames |-> fs] :
             h \in HttpHeaders, fs \in FrameSeqs(MaxFrames) }

\* the responses a server stream is opened on: serverStream.SendMsg keeps the
\* headers without looking at them
StreamResponses ==
    { r \in Responses : r.hdr \in { [NewMD EXCEPT !.nil = TRUE],
                                    [NewMD EXCEPT !.x = << "1" >>] } }

NoResponse == [kind |-> "none", code |-> 0, hdr |-> NilMD, frames |-> <<>>]

\* an httpTransport that forgets it has sent
sendRefusedNever(h) == FALSE

\* httpTransport.Send: `if t.sent`, the transport sends once
sendRefused(h) == h.sent

\* httpTransport.Send: the POST and the check of the response code
httpSend(r) ==
    IF r.kind = "connErr" THEN
        [err |-> Err("wrapped", << "failed to send the API" >>),
         header |-> NilMD, body |-> <<>>]
    ELSE IF r.code # StatusOK THEN
        [err |-> Err("ErrInvalidResponseCode", <<>>), header |-> NilMD,
         body |-> <<>>]
    ELSE [err |-> NilErr, header |-> r.hdr, body |-> Flatten(r.frames)]

\* a checkStatus that lets every header status pass
checkStatusPasses(md) == StatusNew(OK, <<>>)

\* checkStatus(md)
checkStatus(md) ==
    IF md.st # <<>> /\ ParseUint(md.st[1]) < 0 THEN
        StatusNew(Unknown, << "unknown status code ", md.st[1] >>)
    ELSE StatusNew(IF md.st # <<>> THEN ParseUint(md.st[1]) ELSE OK,
                   IF md.gm # <<>> THEN << md.gm[1] >> ELSE <<>>)

\* the caller's reply object before any decoding
NoReply == [set |-> FALSE, v |-> 0]

\* the Header(h) / Trailer(t) call options: an empty metadata to start with
Sink(given) == [given |-> given, md |-> IF given THEN NewMD ELSE NilMD]

-----------------------------------------------------------------------------
(* ClientConn.Invoke *)

InvOut(e, rep, n, h, t) ==
    [done |-> TRUE, err |-> e, reply |-> rep, bodyRead |-> n, hdrSink |-> h,
     trlSink |-> t]

SinkSet(s, md) == IF s.given THEN [s EXCEPT !.md = md] ELSE s

\* an Invoke that reads the trailer frame and drops its status
InvokeTrailerDropsStatus(body, h, rep, hs, ts) ==
    InvOut(NilErr, rep, Len(body) - Len(h.rest), hs, ts)

\* Invoke from the trailer header on: the frame must be a trailer frame
InvokeTrailer(body, h, rep, hs, ts) ==
    IF ~IsTrailerHeader(h) THEN
        InvOut(Err("wrapped", << "unexpected header" >>), rep,
               Len(body) - Len(h.rest), hs, ts)
    ELSE LET t == ParseStatusAndTrailer(h.rest, h.length)
         IN  IF t.err # NilErr THEN
                 InvOut(Err("wrapped", << "failed to parse status and trailer" >>),
                        rep, Len(body) - Len(t.rest), hs, ts)
             ELSE InvOut(StatusErr(t.status), rep, Len(body) - Len(t.rest), hs,
                         SinkSet(ts, t.trailer))

\* Invoke from the first frame header on
InvokeBody(body, hs, ts) ==
    LET h1 == ParseResponseHeader(body)
        m  == ParseLengthPrefixedMessage(h1.rest, h1.length)
        u  == CodecUnmarshal(m.msg)
        h2 == ParseResponseHeader(m.rest)
    IN  IF h1.err # NilErr THEN
            InvOut(Err("wrapped", << "failed to parse response header" >>),
                   NoReply, Len(body) - Len(h1.rest), hs, ts)
        ELSE IF IsMessageHeader(h1) THEN
            IF m.err # NilErr THEN
                InvOut(Err("wrapped", << "failed to parse the response body" >>),
                       NoReply, Len(body) - Len(m.rest), hs, ts)
            ELSE IF ~u.ok THEN
                InvOut(Err("wrapped", << "failed to unmarshal response body" >>),
                       NoReply, Len(body) - Len(m.rest), hs, ts)
            ELSE IF h2.err # NilErr THEN
                InvOut(Err("wrapped", << "failed to parse response header" >>),
                       [set |-> TRUE, v |-> u.v], Len(body) - Len(h2.rest), hs, ts)
            ELSE InvokeTrailer(body, h2, [set |-> TRUE, v |-> u.v], hs, ts)
        ELSE InvokeTrailer(body, h1, NoReply, hs, ts)

\* ClientConn.Invoke: the result for response r and the call options
InvokeOutcome(r, hs, ts) ==
    LET sent == httpSend(r)
        md   == toMetadata(sent.header)
    IN  IF sent.err.kind = "ErrInvalidResponseCode" THEN
            InvOut(StatusErr(StatusNew(Unavailable, << "received invalid response code" >>)),
                   NoReply, 0, hs, ts)
        ELSE IF sent.err # NilErr THEN
            InvOut(Err("wrapped", << "failed to send the request" >>), NoReply,
                   0, hs, ts)
        ELSE IF StatusErr(checkStatus(md)) # NilErr THEN
            InvOut(StatusErr(checkStatus(md)), NoReply, 0, hs, ts)
        ELSE InvokeBody(sent.body, SinkSet(hs, md), ts)

NoInvoke ==
    [done |-> FALSE, err |-> NilErr, reply |-> NoReply, bodyRead |-> 0,
     hdrSink |-> Sink(FALSE), trlSink |-> Sink(FALSE)]

-----------------------------------------------------------------------------
(* Results of stream operations *)

NoHist ==
    [closeSendReturned |-> FALSE, trailerObserved |-> FALSE,
     terminal |-> FALSE, recvErrored |-> FALSE]

\* the result of a completed operation: what it returned, what the history
\* was when it was invoked (at), whether it called transport.Receive or read
\* the body (io), how many socket messages it wrote, whether the context was
\* canceled while it was blocked in a read, whether the other caller was
\* inside the same operation meanwhile (conc), and the kind of the error its
\* last transport.Receive returned (rx)
\* the history flags an operation's result is read against
HistFor(op, h) ==
    [closeSendReturned |-> op \in { "SendMsg", "RecvMsg" } /\ h.closeSendReturned,
     trailerObserved |-> op = "RecvMsg" /\ h.trailerObserved,
     terminal |-> op \in { "Trailer", "RecvMsg" } /\ h.terminal,
     recvErrored |-> op = "Trailer" /\ h.recvErrored]

Result(op, e, md, msg, at) ==
    [op |-> op, err |-> e, md |-> md, msg |-> msg, at |-> HistFor(op, at),
     io |-> FALSE,
     wrote |-> 0, cancelInFlight |-> FALSE, conc |-> FALSE, rx |-> "none"]

NoResult == Result("none", NilErr, NilMD, NoReply, NoHist)

ErrPanic == Err("panic", << "Trailer must be called after stream.CloseAndReceive has been called" >>)

-----------------------------------------------------------------------------
(* serverStream *)

NoServerStream ==
    [resNil |-> TRUE, body |-> <<>>, bodyClosed |-> FALSE, closed |-> FALSE,
     header |-> NilMD, trailer |-> NilMD]

Min(a, b) == IF a < b THEN a ELSE b

\* serverStream.RecvMsg up to its deferred function, when resStream.Read
\* has returned n bytes of the 5 asked for
ssRecvBody(s, n) ==
    LET h      == Take(s.body, n)
        rest   == Drop(s.body, n)
        flag   == h[1]
        length == BigEndianUint32(SubSeq(h, 2, 5))
        m      == ParseLengthPrefixedMessage(rest, length)
        u      == CodecUnmarshal(m.msg)
        t      == ParseStatusAndTrailer(rest, length)
    IN  IF n # headerLen THEN
            [err |-> ErrUnexpectedEOF, msg |-> NoReply,
             s |-> [s EXCEPT !.body = rest]]
        ELSE IF length = 0 THEN
            [err |-> ErrEOF, msg |-> NoReply, s |-> [s EXCEPT !.body = rest]]
        ELSE IF flag = 0 \/ flag = 1 THEN
            IF m.err # NilErr THEN
                [err |-> m.err, msg |-> NoReply, s |-> [s EXCEPT !.body = m.rest]]
            ELSE IF ~u.ok THEN
                [err |-> Err("wrapped", << "failed to unmarshal response body" >>),
                 msg |-> NoReply, s |-> [s EXCEPT !.body = m.rest]]
            ELSE [err |-> NilErr, msg |-> [set |-> TRUE, v |-> u.v],
                  s |-> [s EXCEPT !.body = m.rest]]
        ELSE IF t.err # NilErr THEN
            [err |-> Err("wrapped", << "failed to parse trailer" >>),
             msg |-> NoReply, s |-> [s EXCEPT !.body = t.rest]]
        ELSE [err |-> IF t.status.code # OK THEN StatusErr(t.status) ELSE ErrEOF,
              msg |-> NoReply,
              s |-> [s EXCEPT !.body = t.rest, !.closed = TRUE,
                              !.trailer = t.trailer]]

\* serverStream.RecvMsg up to its deferred function; n is what the Read of
\* the frame header returns
ssRecv(s, n) ==
    IF s.resNil THEN
        [err |-> Err("wrapped", << "Receive must be call after calling Send" >>),
         msg |-> NoReply, s |-> s]
    ELSE IF s.bodyClosed THEN
        [err |-> Err("wrapped", << "read on closed response body" >>),
         msg |-> NoReply, s |-> s]
    ELSE IF s.body = <<>> THEN [err |-> ErrEOF, msg |-> NoReply, s |-> s]
    ELSE ssRecvBody(s, n)

\* what one Read of up to headerLen bytes may return
ReadSizes(s) ==
    IF s.resNil \/ s.bodyClosed \/ s.body = <<>> THEN { 0 }
    ELSE 1 .. Min(headerLen, Len(s.body))

-----------------------------------------------------------------------------
(* webSocketTransport and the peer on the socket *)

\* a message on the socket, either direction; a close ends the inbox
Msg(kind, data) == [kind |-> kind, data |-> data, code |-> "none"]
CloseMsg(code) == [kind |-> "close", data |-> <<>>, code |-> code]

\* response-header blocks the peer may send as the second message
HeaderBlocks == { << 230 >>, << 205, 220 >>, << 205 >> }

\* frames the peer may send, one per socket message
WSFrames ==
    { [flag |-> 0, payload |-> << 7 >>], [flag |-> 128, payload |-> << 200 >>],
      [flag |-> 128, payload |-> << 205, 220 >>] }

\* websocket.CloseNormalClosure, websocket.CloseAbnormalClosure
CloseCodes == { "normal", "abnormal" }

NoTransport ==
    [once |-> FALSE, resOnce |-> "new", header |-> NilMD, closed |-> FALSE,
     closeCount |-> 0]

NoStream ==
    [trailersOnly |-> FALSE, closed |-> FALSE, sentCloseSend |-> FALSE,
     headerMD |-> NilMD, trailerMD |-> NilMD]

NoLoc ==
    [at |-> NoHist, msg |-> 0, b |-> <<>>, reply |-> NoReply, phase |-> 1,
     wrote |-> 0, cancelInFlight |-> FALSE, conc |-> FALSE]

\* the error webSocketTransport.Receive returns when conn.ReadMessage fails
\* with a close of the given code
readMessageErr(code) ==
    IF code = "normal" THEN ErrEOF
    ELSE IF code = "abnormal" THEN ErrUnexpectedEOF
    ELSE Err("wrapped", << "failed to read response body" >>)

\* the error webSocketTransport.Receive returns when its conn.NextReader
\* after ReadMessage fails: the *websocket.CloseError as it is
nextReaderErr(code) == Err("CloseError", << code >>)

-----------------------------------------------------------------------------
(* clientStream and bidiStream *)

\* a closed.Store that is lost: the stream stays open
storeClosedLost(c) == c

\* s.closed.Store(true)
storeClosed(c) == [c EXCEPT !.closed = TRUE]

\* clientStream.Header from its first line to its return, th being what
\* transport.Header() returns
csHeader(c, th) ==
    IF c.trailersOnly THEN [md |-> NilMD, c |-> c, fetched |-> 0]
    ELSE IF ~c.headerMD.nil THEN [md |-> c.headerMD, c |-> c, fetched |-> 0]
    ELSE LET md == [th EXCEPT !.nil = FALSE]
         IN  [md |-> md, c |-> [c EXCEPT !.headerMD = md], fetched |-> 1]

\* a statusFromHeader that takes a missing grpc-status for success
statusFromHeaderMissingIsOK(h) ==
    IF h.st = <<>> THEN NilErr
    ELSE StatusErr(StatusNew(Atoi(h.st[1]), h.gm))

\* statusFromHeader(h).Err(); msgs[0] with no grpc-message is an index out
\* of range
statusFromHeader(h) ==
    IF h.st = <<>> THEN
        StatusErr(StatusNew(Unknown,
                   << "response closed without grpc-status (headers only)" >>))
    ELSE IF Atoi(h.st[1]) < 0 THEN
        StatusErr(StatusNew(Unknown, << "invalid syntax", h.st[1] >>))
    ELSE IF h.gm = <<>> THEN Err("panic", << "index out of range" >>)
    ELSE StatusErr(StatusNew(Atoi(h.st[1]), << h.gm[1] >>))

RecvOut(next, e, msg, c, fetched, terminal, trailerFrame) ==
    [next |-> next, err |-> e, msg |-> msg, c |-> c, fetched |-> fetched,
     terminal |-> terminal, trailerFrame |-> trailerFrame]

\* the trailers-only branch of RecvMsg; bidiStream stores closed first
csTrailersOnly(c, th, markClosed) ==
    LET c1 == IF markClosed THEN storeClosed(c) ELSE c
        h  == csHeader(c1, th)
        c2 == [h.c EXCEPT !.trailerMD = h.md, !.trailersOnly = TRUE]
    IN  RecvOut("done", statusFromHeader(h.md), NoReply, c2, h.fetched, TRUE,
                FALSE)

\* clientStream.isTrailerOnly(err)
isTrailerOnly(c, e) == e.kind = "UnexpectedEOF" /\ MDLen(c.trailerMD) = 0

\* a bidiStream.isTrailerOnly that does not ask for CloseSend
bidiIsTrailerOnlyAnyTime(c, e) ==
    e.kind = "UnexpectedEOF" /\ MDLen(c.trailerMD) = 0

\* bidiStream.isTrailerOnly(err)
bidiIsTrailerOnly(c, e) == c.sentCloseSend /\ isTrailerOnly(c, e)

\* clientStream.RecvMsg from the check of the frame header to its return
csTrailerFrame(c, h, rep) ==
    IF ~IsTrailerHeader(h) THEN
        RecvOut("done", Err("wrapped", << "unexpected header" >>), rep, c, 0,
                FALSE, FALSE)
    ELSE LET t == ParseStatusAndTrailer(h.rest, h.length)
         IN  IF t.err # NilErr THEN
                 RecvOut("done",
                         Err("wrapped", << "failed to parse status and trailer" >>),
                         rep, c, 0, FALSE, TRUE)
             ELSE RecvOut("done", StatusErr(t.status), rep,
                          [c EXCEPT !.trailerMD = t.trailer], 0, TRUE, TRUE)

\* clientStream.RecvMsg after its first transport.Receive returned (raw, e)
csAfterReceive(c, th, raw, e) ==
    LET h == ParseResponseHeader(raw)
        m == ParseLengthPrefixedMessage(h.rest, h.length)
        u == CodecUnmarshal(m.msg)
    IN  IF isTrailerOnly(c, e) THEN csTrailersOnly(c, th, FALSE)
        ELSE IF e # NilErr THEN
            RecvOut("done", Err("wrapped", << "failed to receive the response" >>),
                    NoReply, c, 0, FALSE, FALSE)
        ELSE IF h.err # NilErr THEN
            RecvOut("done", Err("wrapped", << "failed to parse response header" >>),
                    NoReply, c, 0, FALSE, FALSE)
        ELSE IF IsMessageHeader(h) THEN
            IF m.err # NilErr THEN
                RecvOut("done",
                        Err("wrapped", << "failed to parse the response body" >>),
                        NoReply, c, 0, FALSE, FALSE)
            ELSE IF ~u.ok THEN
                RecvOut("done",
                        Err("wrapped", << "failed to unmarshal response body" >>),
                        NoReply, c, 0, FALSE, FALSE)
            ELSE RecvOut("receive2", NilErr, [set |-> TRUE, v |-> u.v], c, 0,
                         FALSE, FALSE)
        ELSE csTrailerFrame(c, h, NoReply)

\* clientStream.RecvMsg after its second transport.Receive returned (raw, e)
csAfterReceive2(c, raw, e, rep) ==
    LET h == ParseResponseHeader(raw)
    IN  IF e # NilErr THEN
            RecvOut("done",
                    Err("wrapped", << "failed to receive the response trailer" >>),
                    rep, c, 0, FALSE, FALSE)
        ELSE IF h.err # NilErr THEN
            RecvOut("done", Err("wrapped", << "failed to parse response header2" >>),
                    rep, c, 0, FALSE, FALSE)
        ELSE csTrailerFrame(c, h, rep)

\* bidiStream.RecvMsg after transport.Receive returned (raw, e)
bidiAfterReceive(c, th, raw, e) ==
    LET h == ParseResponseHeader(raw)
        m == ParseLengthPrefixedMessage(h.rest, h.length)
        u == CodecUnmarshal(m.msg)
        t == ParseStatusAndTrailer(h.rest, h.length)
        cc == storeClosed(c)
    IN  IF bidiIsTrailerOnly(c, e) THEN csTrailersOnly(c, th, TRUE)
        ELSE IF e # NilErr THEN
            RecvOut("done", Err("wrapped", << "failed to receive the response" >>),
                    NoReply, c, 0, FALSE, FALSE)
        ELSE IF h.err # NilErr THEN
            RecvOut("done", Err("wrapped", << "failed to parse response header" >>),
                    NoReply, c, 0, FALSE, FALSE)
        ELSE IF IsMessageHeader(h) THEN
            IF m.err # NilErr THEN
                RecvOut("done", m.err, NoReply, c, 0, FALSE, FALSE)
            ELSE IF ~u.ok THEN
                RecvOut("done",
                        Err("wrapped", << "failed to unmarshal response body" >>),
                        NoReply, c, 0, FALSE, FALSE)
            ELSE RecvOut("done", NilErr, [set |-> TRUE, v |-> u.v], c, 0, FALSE,
                         FALSE)
        ELSE IF t.err # NilErr THEN
            RecvOut("done", Err("wrapped", << "failed to parse trailer" >>),
                    NoReply, cc, 0, TRUE, TRUE)
        ELSE RecvOut("done",
                     IF t.status.code # OK THEN StatusErr(t.status) ELSE ErrEOF,
                     NoReply, [cc EXCEPT !.trailerMD = t.trailer], 0, TRUE, TRUE)

-----------------------------------------------------------------------------
(* The state machine *)

\* the codecs a call may select with CallContentSubtype; proto is the default
CodecNames == { "proto", "json" }

\* the line of the request-header block that names a content type
ContentTypeLine(name) == IF name = "proto" THEN 240 ELSE 241

\* the request-header block webSocketTransport.Send writes: content-type
\* and x-grpc-web, one line each
requestHeaderBlock == << ContentTypeLine("proto"), 250 >>

\* once.Do(f) runs f
onceDoAlways(w) == TRUE

\* once.Do(f) runs f only the first time
onceDo(w) == ~w.once

\* payloads put through the frame codec
PayloadBytes == { 0, 1, 128, 255 }
RECURSIVE ShortPayloads(_)
ShortPayloads(n) ==
    IF n = 0 THEN { <<>> }
    ELSE ShortPayloads(n - 1) \cup
         { Append(q, b) : q \in { r \in ShortPayloads(n - 1) : Len(r) = n - 1 },
                          b \in PayloadBytes }
LongPayloads == { [i \in 1 .. n |-> 7] : n \in { 256, 65537 } }
Payloads == ShortPayloads(MaxPayload) \cup LongPayloads

NoDecoded == [err |-> NilErr, trailer |-> FALSE, length |-> 0, msg |-> <<>>]
NoCodec ==
    [name |-> "proto", stage |-> "idle", p |-> <<>>, frame |-> <<>>,
     got |-> NoDecoded]

Shapes == { "unary", "server", "client", "bidi" }
WS == shape \in { "client", "bidi" }

\* the state after construction, the codec aside
InitRest ==
    /\ shape \in Shapes
    /\ ctxCanceled = FALSE
    /\ resp = NoResponse
    /\ http = [sent |-> FALSE, posts |-> 0, closeCount |-> 0]
    /\ inv = NoInvoke
    /\ ss = NoServerStream
    /\ nRecv = 0
    /\ wst = NoTransport
    /\ wire = <<>>
    /\ inbox = <<>>
    /\ srv = [phase |-> "pre1", sent |-> 0, log |-> <<>>]
    /\ cs = NoStream
    /\ pc = [t \in Callers |-> "idle"]
    /\ loc = [t \in Callers |-> NoLoc]
    /\ last = [t \in Callers |-> NoResult]
    /\ hist = NoHist
    /\ fetchCount = 0

Init == InitRest /\ codec = NoCodec

\* a payload is encoded as a request frame and the frame is decoded as a
\* response frame: the header, then the announced number of bytes
EncodeDecode ==
    /\ codec.stage = "new"
    /\ LET f == encodeFrame(codec.p)
           h == ParseResponseHeader(f)
           m == ParseLengthPrefixedMessage(h.rest, h.length)
       IN  codec' = [codec EXCEPT
                        !.stage = "done",
                        !.frame = f,
                        !.got = IF h.err # NilErr
                                THEN [NoDecoded EXCEPT !.err = h.err]
                                ELSE [err |-> m.err, trailer |-> IsTrailerHeader(h),
                                      length |-> h.length, msg |-> m.msg]]
    /\ UNCHANGED << shape, ctxCanceled, httpVars, wsVars, pc, loc, last, hist >>

\* an operation of caller t returns r
Finish(t, r) ==
    /\ pc' = [pc EXCEPT ![t] = "idle"]
    /\ loc' = [loc EXCEPT ![t] = NoLoc]
    /\ last' = [last EXCEPT ![t] = r]

\* ClientConn.Invoke, for any response of the server and with or without the
\* Header/Trailer call options
Invoke ==
    /\ shape = "unary"
    /\ ~inv.done
    /\ \E r \in Responses, given \in BOOLEAN :
        /\ resp' = r
        /\ inv' = InvokeOutcome(r, Sink(given), Sink(given))
        /\ http' = [http EXCEPT !.sent = TRUE, !.posts = @ + 1,
                                !.closeCount = @ + 1]
    /\ UNCHANGED << shape, codec, ctxCanceled, ss, nRecv, wsVars, pc, loc, last, hist >>

\* serverStream.SendMsg (with httpTransport.Send)
ssSendMsg ==
    /\ shape = "server"
    /\ IF sendRefused(http) THEN
           /\ Finish("a", Result("SendMsg",
                                 Err("wrapped", << "failed to send the request" >>),
                                 NilMD, NoReply, hist))
           /\ UNCHANGED << resp, http, ss >>
       ELSE \E r \in StreamResponses :
           LET sent == httpSend(r)
           IN  /\ resp' = r
               /\ http' = [http EXCEPT !.sent = TRUE, !.posts = @ + 1]
               /\ ss' = IF sent.err # NilErr THEN ss
                        ELSE [ss EXCEPT !.header = toMetadata(sent.header),
                                        !.resNil = FALSE, !.body = sent.body]
               /\ Finish("a", Result("SendMsg",
                                     IF sent.err # NilErr
                                     THEN Err("wrapped", << "failed to send the request" >>)
                                     ELSE NilErr,
                                     NilMD, NoReply, hist))
    /\ UNCHANGED << shape, codec, ctxCanceled, inv, nRecv, wsVars, hist >>

\* serverStream.RecvMsg with its deferred function: on io.EOF the transport
\* and the body are closed
ssRecvMsg ==
    /\ shape = "server"
    /\ nRecv < MaxCalls
    /\ \E n \in ReadSizes(ss) :
        LET o   == ssRecv(ss, n)
            eof == o.err = ErrEOF
        IN  /\ ss' = IF eof THEN [o.s EXCEPT !.bodyClosed = TRUE] ELSE o.s
            /\ http' = IF eof THEN [http EXCEPT !.closeCount = @ + 1] ELSE http
            /\ hist' = [hist EXCEPT !.recvErrored =
                                        @ \/ (o.err # NilErr /\ ~ss.resNil),
                                    !.terminal = @ \/ o.s.closed,
                                    !.trailerObserved = @ \/ o.s.closed]
            /\ Finish("a", [Result("RecvMsg", o.err, NilMD, o.msg, hist)
                            EXCEPT !.io = ~ss.resNil])
    /\ nRecv' = IF ss.resNil THEN nRecv ELSE nRecv + 1
    /\ UNCHANGED << shape, codec, ctxCanceled, resp, inv, wsVars >>

\* serverStream.Trailer
ssTrailer ==
    /\ shape = "server"
    /\ Finish("a", IF ~ss.closed
                   THEN Result("Trailer", ErrPanic, NilMD, NoReply, hist)
                   ELSE Result("Trailer", NilErr, ss.trailer, NoReply, hist))
    /\ UNCHANGED << shape, codec, ctxCanceled, httpVars, wsVars, hist >>

\* serverStream.Header
ssHeader ==
    /\ shape = "server"
    /\ Finish("a", Result("Header", NilErr, ss.header, NoReply, hist))
    /\ UNCHANGED << shape, codec, ctxCanceled, httpVars, wsVars, hist >>

\* serverStream.CloseSend
ssCloseSend ==
    /\ shape = "server"
    /\ Finish("a", Result("CloseSend", NilErr, NilMD, NoReply, hist))
    /\ UNCHANGED << shape, codec, ctxCanceled, httpVars, wsVars, hist >>

\* the peer writes its next message: the placeholder, the response-header
\* block, then frames
SrvSend ==
    /\ WS
    /\ \/ /\ srv.phase = "pre1"
          /\ inbox' = Append(inbox, Msg("msg", <<>>))
          /\ srv' = [srv EXCEPT !.phase = "pre2"]
       \/ /\ srv.phase = "pre2"
          /\ \E hb \in HeaderBlocks : inbox' = Append(inbox, Msg("msg", hb))
          /\ srv' = [srv EXCEPT !.phase = "frames"]
       \/ /\ srv.phase = "frames"
          /\ srv.sent < MaxInbox
          /\ \E f \in WSFrames :
                /\ inbox' = Append(inbox, Msg("msg", EncodeFrame(f)))
                /\ srv' = [srv EXCEPT !.sent = @ + 1, !.log = Append(@, f)]
    /\ UNCHANGED << shape, codec, ctxCanceled, httpVars, wst, wire, cs, fetchCount,
                    pc, loc, last, hist >>

\* the peer closes the socket, at any point
SrvClose ==
    /\ WS
    /\ srv.phase # "closed"
    /\ \E c \in CloseCodes : inbox' = Append(inbox, CloseMsg(c))
    /\ srv' = [srv EXCEPT !.phase = "closed"]
    /\ UNCHANGED << shape, codec, ctxCanceled, httpVars, wst, wire, cs, fetchCount,
                    pc, loc, last, hist >>

ReadPcs == { "pre1", "pre2", "rxMsg", "rxNext" }

\* a caller blocked in a socket read
Blocked(t) == pc[t] \in ReadPcs /\ inbox = <<>>

\* the caller's context is canceled while an operation is blocked in a
\* read; no transport operation looks at the context
Cancel ==
    /\ WS
    /\ ~ctxCanceled
    /\ \E t \in Callers : Blocked(t)
    /\ ctxCanceled' = TRUE
    /\ loc' = [t \in Callers |->
                 IF Blocked(t) THEN [loc[t] EXCEPT !.cancelInFlight = TRUE]
                 ELSE loc[t]]
    /\ UNCHANGED << shape, codec, httpVars, wsVars, pc, last, hist >>

\* clientStream.Header up to the cache lookup
Header(t) ==
    /\ WS
    /\ pc[t] = "idle"
    /\ IF cs.trailersOnly THEN
           /\ Finish(t, Result("Header", NilErr, NilMD, NoReply, hist))
       ELSE IF ~cs.headerMD.nil THEN
           /\ Finish(t, Result("Header", NilErr, cs.headerMD, NoReply, hist))
       ELSE /\ pc' = [u \in Callers |-> IF u = t THEN "hdrFetch" ELSE pc[u]]
            /\ loc' = [u \in Callers |->
                         IF u = t THEN
                             [NoLoc EXCEPT !.conc = \E v \in Callers \ {t} :
                                                        pc[v] = "hdrFetch"]
                         ELSE IF pc[u] = "hdrFetch" THEN
                             [loc[u] EXCEPT !.conc = TRUE]
                         ELSE loc[u]]
            /\ UNCHANGED last
    /\ UNCHANGED << shape, codec, ctxCanceled, httpVars, wsVars, hist >>

\* clientStream.Header from transport.Header() to the store of headerMD
HeaderFetch(t) ==
    /\ pc[t] = "hdrFetch"
    /\ LET md == [wst.header EXCEPT !.nil = FALSE]
       IN  /\ cs' = [cs EXCEPT !.headerMD = md]
           /\ Finish(t, [Result("Header", NilErr, md, NoReply, loc[t].at)
                           EXCEPT !.conc = loc[t].conc])
    /\ fetchCount' = fetchCount + 1
    /\ UNCHANGED << shape, codec, ctxCanceled, httpVars, wst, wire, inbox, srv, hist >>

\* clientStream.Trailer
Trailer(t) ==
    /\ WS
    /\ pc[t] = "idle"
    /\ Finish(t, IF ~cs.closed
                 THEN Result("Trailer", ErrPanic, NilMD, NoReply, hist)
                 ELSE Result("Trailer", NilErr, cs.trailerMD, NoReply, hist))
    /\ UNCHANGED << shape, codec, ctxCanceled, httpVars, wsVars, hist >>

\* clientStream.CloseSend / bidiStream.CloseSend (transport.CloseSend writes
\* the 0x01 message)
CloseSend(t) ==
    /\ WS
    /\ pc[t] = "idle"
    /\ Len(wire) < MaxWire
    /\ wire' = Append(wire, Msg("fin", << 1 >>))
    /\ cs' = IF shape = "bidi" THEN [cs EXCEPT !.sentCloseSend = TRUE]
             ELSE storeClosed(cs)
    /\ hist' = [hist EXCEPT !.closeSendReturned = TRUE]
    /\ Finish(t, [Result("CloseSend", NilErr, NilMD, NoReply, hist)
                    EXCEPT !.wrote = 1])
    /\ UNCHANGED << shape, codec, ctxCanceled, httpVars, wst, inbox, srv, fetchCount >>

SendMsgs == { 7 }

\* clientStream.SendMsg with webSocketTransport.Send, up to the end of
\* once.Do: the first Send writes the request-header block
SendMsg(t) ==
    /\ WS
    /\ pc[t] = "idle"
    /\ Len(wire) < MaxWire
    /\ \E m \in SendMsgs :
        IF wst.closed THEN
            /\ Finish(t, Result("SendMsg",
                                Err("wrapped", << "failed to send the request" >>),
                                NilMD, NoReply, hist))
            /\ UNCHANGED << wire, wst >>
        ELSE IF onceDo(wst) THEN
            /\ wire' = Append(wire, Msg("header", requestHeaderBlock))
            /\ wst' = [wst EXCEPT !.once = TRUE]
            /\ pc' = [pc EXCEPT ![t] = "sendFrame"]
            /\ loc' = [loc EXCEPT ![t] = [NoLoc EXCEPT !.at = HistFor("SendMsg", hist),
                                                       !.msg = m,
                                                       !.wrote = 1]]
            /\ UNCHANGED last
        ELSE /\ wire' = Append(wire, Msg("frame", << 0 >> \o encodeRequestBody(m)))
             /\ Finish(t, [Result("SendMsg", NilErr, NilMD, NoReply, hist)
                             EXCEPT !.wrote = 1])
             /\ UNCHANGED wst
    /\ UNCHANGED << shape, codec, ctxCanceled, httpVars, inbox, srv, cs, fetchCount,
                    hist >>

\* webSocketTransport.Send after once.Do: the 0x00-prefixed frame message
SendFrame(t) ==
    /\ pc[t] = "sendFrame"
    /\ Len(wire) < MaxWire
    /\ wire' = Append(wire, Msg("frame", << 0 >> \o encodeRequestBody(loc[t].msg)))
    /\ Finish(t, [Result("SendMsg", NilErr, NilMD, NoReply, loc[t].at)
                    EXCEPT !.wrote = loc[t].wrote + 1])
    /\ UNCHANGED << shape, codec, ctxCanceled, httpVars, wst, inbox, srv, cs,
                    fetchCount, hist >>

\* a resOnce that runs its function on every Receive
resOnceDoAlways(w) == TRUE

\* t.resOnce.Do: the function runs on the first call only
resOnceDo(w) == w.resOnce = "new"

\* RecvMsg of caller t goes on after transport.Receive returned (raw, e)
RecvReturn(t, raw, e) ==
    LET o == IF shape = "bidi" THEN bidiAfterReceive(cs, wst.header, raw, e)
             ELSE IF loc[t].phase = 1 THEN csAfterReceive(cs, wst.header, raw, e)
             ELSE csAfterReceive2(cs, raw, e, loc[t].reply)
    IN  /\ cs' = o.c
        /\ fetchCount' = fetchCount + o.fetched
        /\ IF o.next = "receive2" THEN
               /\ pc' = [pc EXCEPT ![t] = "rxMsg"]
               /\ loc' = [loc EXCEPT ![t] = [@ EXCEPT !.phase = 2,
                                                      !.reply = o.msg,
                                                      !.b = <<>>]]
               /\ UNCHANGED << last, hist >>
           ELSE /\ hist' = [hist EXCEPT !.recvErrored = @ \/ o.err # NilErr,
                                        !.terminal = @ \/ o.terminal,
                                        !.trailerObserved = @ \/ o.trailerFrame]
                /\ Finish(t, [Result("RecvMsg", o.err, NilMD, o.msg, loc[t].at)
                                EXCEPT !.io = TRUE,
                                       !.cancelInFlight = loc[t].cancelInFlight,
                                       !.rx = e.kind])

\* clientStream.RecvMsg / bidiStream.RecvMsg up to the first blocking read of
\* transport.Receive; a caller that finds resOnce running waits in once.Do
RecvMsg(t) ==
    /\ WS
    /\ pc[t] = "idle"
    /\ \/ /\ shape = "bidi" /\ cs.closed
          /\ hist' = [hist EXCEPT !.recvErrored = TRUE]
          /\ Finish(t, Result("RecvMsg", ErrEOF, NilMD, NoReply, hist))
          /\ UNCHANGED << wst, cs, fetchCount >>
       \/ /\ ~(shape = "bidi" /\ cs.closed)
          /\ wst.resOnce # "running"
          /\ IF wst.closed THEN
                 /\ loc' = [loc EXCEPT ![t] = [NoLoc EXCEPT !.at = HistFor("RecvMsg", hist)]]
                 /\ RecvReturn(t, <<>>, ErrEOF)
                 /\ UNCHANGED wst
             ELSE /\ pc' = [pc EXCEPT ![t] = IF resOnceDo(wst) THEN "pre1"
                                             ELSE "rxMsg"]
                  /\ wst' = [wst EXCEPT !.resOnce = IF resOnceDo(wst) THEN "running"
                                                    ELSE @]
                  /\ loc' = [loc EXCEPT ![t] = [NoLoc EXCEPT !.at = HistFor("RecvMsg", hist)]]
                  /\ UNCHANGED << last, hist, cs, fetchCount >>
    /\ UNCHANGED << shape, codec, ctxCanceled, httpVars, wire, inbox, srv >>

\* resOnce.Do, first conn.NextReader: the first message is dropped; an error
\* ends the once and Receive goes on to ReadMessage
ReceivePre1(t) ==
    /\ pc[t] = "pre1"
    /\ inbox # <<>>
    /\ IF Head(inbox).kind = "msg" THEN
           /\ inbox' = Tail(inbox)
           /\ pc' = [pc EXCEPT ![t] = "pre2"]
           /\ UNCHANGED wst
       ELSE /\ wst' = [wst EXCEPT !.resOnce = "done"]
            /\ pc' = [pc EXCEPT ![t] = "rxMsg"]
            /\ UNCHANGED inbox
    /\ UNCHANGED << shape, codec, ctxCanceled, httpVars, wire, srv, cs, fetchCount,
                    loc, last, hist >>

\* resOnce.Do, second conn.NextReader: the message is scanned into t.header;
\* an error ends the once and Receive goes on to ReadMessage
ReceivePre2(t) ==
    /\ pc[t] = "pre2"
    /\ inbox # <<>>
    /\ IF Head(inbox).kind = "msg" THEN
           /\ inbox' = Tail(inbox)
           /\ wst' = [wst EXCEPT !.resOnce = "done",
                                 !.header = ParseBlock(NewMD, Head(inbox).data)]
       ELSE /\ wst' = [wst EXCEPT !.resOnce = "done"]
            /\ UNCHANGED inbox
    /\ pc' = [pc EXCEPT ![t] = "rxMsg"]
    /\ UNCHANGED << shape, codec, ctxCanceled, httpVars, wire, srv, cs, fetchCount,
                    loc, last, hist >>

\* conn.ReadMessage of transport.Receive
ReceiveReadMessage(t) ==
    /\ pc[t] = "rxMsg"
    /\ inbox # <<>>
    /\ IF Head(inbox).kind = "msg" THEN
           /\ inbox' = Tail(inbox)
           /\ pc' = [pc EXCEPT ![t] = "rxNext"]
           /\ loc' = [loc EXCEPT ![t] = [@ EXCEPT !.b = Head(inbox).data]]
           /\ UNCHANGED << cs, fetchCount, last, hist >>
       ELSE /\ RecvReturn(t, <<>>, readMessageErr(Head(inbox).code))
            /\ UNCHANGED inbox
    /\ UNCHANGED << shape, codec, ctxCanceled, httpVars, wst, wire, srv >>

\* the conn.NextReader after ReadMessage, and io.ReadAll of both messages
ReceiveNextReader(t) ==
    /\ pc[t] = "rxNext"
    /\ inbox # <<>>
    /\ IF Head(inbox).kind = "msg" THEN
           /\ inbox' = Tail(inbox)
           /\ RecvReturn(t, loc[t].b \o Head(inbox).data, NilErr)
       ELSE /\ RecvReturn(t, <<>>, nextReaderErr(Head(inbox).code))
            /\ UNCHANGED inbox
    /\ UNCHANGED << shape, codec, ctxCanceled, httpVars, wst, wire, srv >>

\* one unary call
NextUnary == Invoke

\* one caller on a server stream
NextServer == ssSendMsg \/ ssRecvMsg \/ ssTrailer \/ ssHeader \/ ssCloseSend

\* the operations of caller t on a client or bidi stream
StreamOp(t) ==
    \/ Header(t) \/ HeaderFetch(t) \/ Trailer(t) \/ CloseSend(t)
    \/ SendMsg(t) \/ SendFrame(t) \/ RecvMsg(t)
    \/ ReceivePre1(t) \/ ReceivePre2(t)
    \/ ReceiveReadMessage(t) \/ ReceiveNextReader(t)

\* one caller on a client or bidi stream, and the peer
NextStream == SrvSend \/ SrvClose \/ Cancel \/ StreamOp("a")

\* two callers on a client or bidi stream: both may call Header at any
\* time, caller "a" also receives
NextHeaders ==
    \/ SrvSend \/ SrvClose
    \/ \E t \in Callers : Header(t) \/ HeaderFetch(t)
    \/ RecvMsg("a") \/ ReceivePre1("a") \/ ReceivePre2("a")
    \/ ReceiveReadMessage("a") \/ ReceiveNextReader("a")

\* two callers sending and closing the send side of one client or bidi stream
NextSends == \E t \in Callers : SendMsg(t) \/ SendFrame(t) \/ CloseSend(t)

\* two callers receiving on one client or bidi stream, and the peer
NextReceivers ==
    \/ SrvSend \/ SrvClose
    \/ \E t \in Callers :
          \/ RecvMsg(t) \/ ReceivePre1(t) \/ ReceivePre2(t)
          \/ ReceiveReadMessage(t) \/ ReceiveNextReader(t)

\* the frame codec on one payload
NextCodec == EncodeDecode

Next ==
    NextUnary \/ NextServer \/ NextStream \/ NextHeaders \/ NextSends
        \/ NextReceivers \/ NextCodec

InitShape(s) == Init /\ shape = s

SpecUnary == InitShape("unary") /\ [][NextUnary]_vars
SpecServer == InitShape("server") /\ [][NextServer]_vars
SpecClient == InitShape("client") /\ [][NextStream]_vars
SpecBidi == InitShape("bidi") /\ [][NextStream]_vars
InitStreams == Init /\ shape \in { "client", "bidi" }
SpecHeaders == InitStreams /\ [][NextHeaders]_vars
SpecReceivers == InitStreams /\ [][NextReceivers]_vars
\* a client or bidi stream opened with any of the codecs
InitSends ==
    /\ InitRest /\ shape \in { "client", "bidi" }
    /\ codec \in { [NoCodec EXCEPT !.name = n] : n \in CodecNames }
SpecSends == InitSends /\ [][NextSends]_vars
InitCodec ==
    /\ InitRest /\ shape = "unary"
    /\ codec \in { [NoCodec EXCEPT !.stage = "new", !.p = q] : q \in Payloads }
SpecCodec == InitCodec /\ [][NextCodec]_vars
Spec == Init /\ [][Next]_vars

-----------------------------------------------------------------------------
(* Properties *)

\* C1: on a client or bidi stream, every SendMsg invoked after CloseSend has
\* returned fails and writes no message to the socket.
C1_SendAfterCloseSendFails ==
    \A t \in Callers :
        (last[t].op = "SendMsg" /\ last[t].at.closeSendReturned)
            => (last[t].err # NilErr /\ last[t].wrote = 0)

\* C2: once RecvMsg of a bidi stream has taken the trailer-frame branch, every
\* RecvMsg invoked later returns io.EOF without calling transport.Receive,
\* and no such call is ever inside a socket read.
C2_RecvAfterTrailerIsEOF ==
    shape = "bidi" =>
        \A t \in Callers :
            /\ (last[t].op = "RecvMsg" /\ last[t].at.trailerObserved)
                   => (last[t].err = ErrEOF /\ ~last[t].io)
            /\ pc[t] \in ReadPcs => ~loc[t].at.trailerObserved

\* a RecvMsg invoked after the trailer frame has returned io.EOF
C2_Witness ==
    /\ shape = "bidi"
    /\ last["a"].op = "RecvMsg"
    /\ last["a"].at.trailerObserved
    /\ last["a"].err = ErrEOF
    /\ cs.closed

\* a data frame that carries one decodable message
GoodData(f) ==
    /\ f.flag \in { 0, 1 }
    /\ f.payload # <<>>
    /\ CodecUnmarshal(f.payload).ok

\* a trailer frame whose text block has grpc-status 0
OKTrailer(f) ==
    /\ f.flag = TrailerBit
    /\ StatusOfMD(ParseBlock(NewMD, f.payload)).code = OK

\* the response is N data frames followed by a trailer frame with status 0
DataThenOKTrailer(r) ==
    /\ r.kind = "response" /\ r.code = StatusOK
    /\ r.frames # <<>>
    /\ OKTrailer(r.frames[Len(r.frames)])
    /\ \A i \in 1 .. Len(r.frames) - 1 : GoodData(r.frames[i])

\* C3: on a server stream whose body is N data frames and a trailer frame
\* with grpc-status 0, the k-th RecvMsg (k <= N) returns the k-th message,
\* the (N+1)-th returns io.EOF, and Trailer() after that returns the
\* metadata of the trailer frame.
C3_ServerStreamDeliversAll ==
    DataThenOKTrailer(resp) =>
        LET N == Len(resp.frames) - 1
            r == last["a"]
        IN  /\ (r.op = "RecvMsg" /\ nRecv \in 1 .. N)
                => /\ r.err = NilErr
                   /\ r.msg = [set |-> TRUE,
                               v |-> CodecUnmarshal(resp.frames[nRecv].payload).v]
            /\ (r.op = "RecvMsg" /\ nRecv = N + 1) => r.err = ErrEOF
            /\ (r.op = "Trailer" /\ nRecv >= N + 1)
                => /\ r.err = NilErr
                   /\ r.md = ParseBlock(NewMD, resp.frames[N + 1].payload)

\* C4: when two callers are inside Header() at the same time, both get the
\* same metadata and transport.Header() has been fetched exactly once.
C4_ConcurrentHeaderFetchesOnce ==
    (/\ last["a"].op = "Header" /\ last["a"].conc
     /\ last["b"].op = "Header" /\ last["b"].conc)
        => (fetchCount = 1 /\ last["a"].md = last["b"].md)

\* C5: Trailer() invoked before a trailer frame was parsed or trailers-only
\* was detected panics.
C5_TrailerBeforeTerminalPanics ==
    \A t \in Callers :
        (last[t].op = "Trailer" /\ ~last[t].at.terminal)
            => last[t].err = ErrPanic

\* C6: Trailer() invoked after RecvMsg has returned a non-nil error does not
\* panic.
C6_TrailerAfterRecvErrorReturns ==
    \A t \in Callers :
        (last[t].op = "Trailer" /\ last[t].at.recvErrored)
            => last[t].err # ErrPanic

\* C7: an operation that was blocked in a socket read when the context was
\* canceled returns a cancellation error.
C7_CancelUnblocksWithCanceled ==
    \A t \in Callers :
        last[t].cancelInFlight => last[t].err.kind = "Canceled"

\* Close calls made on the transport of the stream
TransportCloses ==
    IF shape = "server" THEN http.closeCount ELSE wst.closeCount

\* C8: the transport of a stream is never closed twice, and it has been
\* closed once the stream is terminal (a trailer frame parsed with any
\* status, or trailers-only detected).
C8_TransportClosedExactlyOnce ==
    /\ TransportCloses <= 1
    /\ hist.terminal => TransportCloses = 1

\* the response headers carry a grpc-status that is a non-zero code
HeaderStatusNotOK(r) ==
    /\ r.kind = "response"
    /\ r.hdr.st # <<>>
    /\ ParseUint(r.hdr.st[1]) > 0

\* Invoke failed with the status of the response headers before the body
FailedWithHeaderStatus ==
    /\ inv.err = [kind |-> "status", code |-> ParseUint(resp.hdr.st[1]),
                  msg |-> IF resp.hdr.gm = <<>> THEN <<>>
                          ELSE << resp.hdr.gm[1] >>]
    /\ inv.bodyRead = 0
    /\ inv.reply = NoReply

UnaryData(f) ==
    /\ (f.flag \div TrailerBit) % 2 = 0
    /\ f.payload # <<>>
    /\ CodecUnmarshal(f.payload).ok

\* a trailer frame whose text block has a non-zero grpc-status
NotOKTrailer(f) ==
    /\ (f.flag \div TrailerBit) % 2 = 1
    /\ StatusOfMD(ParseBlock(NewMD, f.payload)).code # OK
    /\ ParseBlock(NewMD, f.payload).st # <<>>

\* Invoke gets to a non-OK trailer frame as frame k of the body: a 200
\* response, no status or status 0 in the headers, k - 1 data frames first
ReachesNotOKTrailer(k) ==
    /\ inv.done
    /\ resp.kind = "response" /\ resp.code = StatusOK
    /\ (resp.hdr.st = <<>> \/ ParseUint(resp.hdr.st[1]) = OK)
    /\ Len(resp.frames) >= k
    /\ NotOKTrailer(resp.frames[k])
    /\ \A i \in 1 .. k - 1 : UnaryData(resp.frames[i])

\* the error of the trailer frame k: its grpc-status and grpc-message
TrailerError(k) ==
    LET md == ParseBlock(NewMD, resp.frames[k].payload)
    IN  [kind |-> "status", code |-> ParseUint(md.st[1]),
         msg |-> IF md.gm = <<>> THEN <<>> ELSE << md.gm[1] >>]

\* C10 as stated: when the trailer frame of a unary response carries a
\* non-OK grpc-status c and grpc-message m, Invoke returns an error with code
\* c and message m and the reply is left unmodified.
C10_TrailerStatusReplyUntouched ==
    \A k \in 1 .. 2 :
        ReachesNotOKTrailer(k)
            => (inv.err = TrailerError(k) /\ inv.reply = NoReply)

\* C10: when the trailer frame of a unary response carries a non-OK
\* grpc-status c and grpc-message m, Invoke returns an error with code c and
\* message m; the reply is unmodified when the trailer frame is the first
\* frame, and holds the decoded message when a data frame came first.
C10_TrailerStatusReply ==
    /\ ReachesNotOKTrailer(1) => (inv.err = TrailerError(1) /\ inv.reply = NoReply)
    /\ ReachesNotOKTrailer(2)
           => /\ inv.err = TrailerError(2)
              /\ inv.reply = [set |-> TRUE,
                              v |-> CodecUnmarshal(resp.frames[1].payload).v]

\* Invoke has failed with the status of a trailer frame that followed a
\* data frame
C10_Witness ==
    /\ ReachesNotOKTrailer(2)
    /\ inv.err.kind = "status" /\ inv.err.code = 5
    /\ inv.err.msg = << "missing" >>
    /\ inv.reply.set

\* C11: Invoke returns nil only when the body is exactly one data frame,
\* decoded into the reply, followed by one trailer frame with status OK.
C11_SuccessOnlyForDataThenTrailer ==
    (inv.done /\ inv.err = NilErr)
        => /\ resp.kind = "response"
           /\ Len(resp.frames) = 2
           /\ UnaryData(resp.frames[1])
           /\ OKTrailer(resp.frames[2])
           /\ inv.reply = [set |-> TRUE,
                           v |-> CodecUnmarshal(resp.frames[1].payload).v]

\* the POST failed below gRPC: no connection, or a response outside 2xx
TransportFailure(r) ==
    \/ r.kind = "connErr"
    \/ r.kind = "response" /\ ~(r.code \in 200 .. 299)

\* C12: every transport-level failure of Invoke, a connection failure or a
\* non-2xx response, is returned as a status error with code Unavailable.
C12_TransportFailureIsUnavailable ==
    (inv.done /\ TransportFailure(resp))
        => (inv.err.kind = "status" /\ inv.err.code = Unavailable)

\* C13: on a bidi stream, a RecvMsg whose Receive failed with
\* io.ErrUnexpectedEOF before CloseSend was issued returns the receive
\* failure, leaves the stream non-terminal and stores no trailer; only after
\* CloseSend is the failure taken for a trailers-only response.
C13_TrailersOnlyNeedsCloseSend ==
    shape = "bidi" =>
        \A t \in Callers :
            (/\ last[t].op = "RecvMsg"
             /\ last[t].rx = "UnexpectedEOF"
             /\ ~last[t].at.closeSendReturned)
                => /\ last[t].err =
                          Err("wrapped", << "failed to receive the response" >>)
                   /\ ~cs.trailersOnly /\ ~cs.closed
                   /\ cs.trailerMD = NilMD
                   /\ ~hist.terminal

\* a bidi RecvMsg has failed on an abnormal close before CloseSend
C13_Witness ==
    /\ shape = "bidi"
    /\ last["a"].op = "RecvMsg"
    /\ last["a"].rx = "UnexpectedEOF"
    /\ ~last["a"].at.closeSendReturned
    /\ last["a"].err.kind = "wrapped"
    /\ ~wst.header.nil

\* the error a header block stands for when it is read as the trailer
BlockError(md) ==
    IF md.st = <<>> \/ Atoi(md.st[1]) < 0 THEN
        [kind |-> "status", code |-> Unknown]
    ELSE IF Atoi(md.st[1]) = OK THEN [kind |-> "nil", code |-> 0]
    ELSE [kind |-> "status", code |-> Atoi(md.st[1])]

\* C14: on a client stream, when Receive fails with io.ErrUnexpectedEOF and
\* no trailer was read before, RecvMsg stores the response header block the
\* server sent as the trailer and returns the status of that block, whether
\* or not Header() was called earlier.
C14_TrailersOnlyUsesHeaderBlock ==
    shape = "client" =>
        \A t \in Callers :
            (/\ last[t].op = "RecvMsg"
             /\ last[t].rx = "UnexpectedEOF"
             /\ ~last[t].at.trailerObserved /\ ~last[t].at.terminal
             /\ ~wst.header.nil)
                => /\ cs.trailerMD = wst.header
                   /\ last[t].err.kind = BlockError(wst.header).kind
                   /\ last[t].err.code = BlockError(wst.header).code
                   /\ wst.header.gm # <<>>
                          => last[t].err.msg = << wst.header.gm[1] >>

\* C15: when RecvMsg takes the trailers-only branch and the metadata it
\* derives the status from has no grpc-status, it returns an error with code
\* Unknown, never nil.
C15_MissingStatusIsUnknown ==
    \A t \in Callers :
        (/\ last[t].op = "RecvMsg"
         /\ last[t].rx = "UnexpectedEOF"
         /\ ~last[t].at.terminal
         /\ cs.trailersOnly
         /\ cs.trailerMD.st = <<>>)
            => (last[t].err.kind = "status" /\ last[t].err.code = Unknown)

\* a trailers-only response whose header block has no grpc-status has been
\* turned into an Unknown error
C15_Witness ==
    /\ last["a"].op = "RecvMsg"
    /\ last["a"].rx = "UnexpectedEOF"
    /\ ~last["a"].at.terminal
    /\ cs.trailersOnly
    /\ cs.trailerMD.st = <<>> /\ cs.trailerMD.x # <<>>
    /\ last["a"].err.code = Unknown

\* C16: the metadata Header() returns on a client or bidi stream is the
\* header block the server sent; it never returns metadata while that block
\* has not been received.
C16_HeaderIsServerHeader ==
    \A t \in Callers :
        (last[t].op = "Header" /\ ~last[t].md.nil)
            => (~wst.header.nil /\ last[t].md = wst.header)

\* the bytes 2..5 of a frame read as a big-endian number
LengthField(f) == ((f[2] * 256 + f[3]) * 256 + f[4]) * 256 + f[5]

\* the request frame of payload p is the byte 0, Len(p) in 4 big-endian
\* bytes, then p
FrameLayout ==
    /\ Len(codec.frame) = headerLen + Len(codec.p)
    /\ codec.frame[1] = 0
    /\ \A i \in 2 .. 5 : codec.frame[i] \in 0 .. 255
    /\ LengthField(codec.frame) = Len(codec.p)
    /\ SubSeq(codec.frame, headerLen + 1, Len(codec.frame)) = codec.p

\* decoding gave a data frame with the payload p
DecodedPayload ==
    /\ codec.got.err = NilErr
    /\ ~codec.got.trailer
    /\ codec.got.length = Len(codec.p)
    /\ codec.got.msg = codec.p

\* C17 as stated: for every payload P the request frame is 0, len(P)
\* big-endian, P, and decoding its header and then the announced length
\* yields a data frame with payload P.
C17_RoundTripEveryPayload ==
    codec.stage = "done" => (FrameLayout /\ DecodedPayload)

\* C17: for every payload P the request frame is 0, len(P) big-endian, P;
\* for every non-empty P decoding yields a data frame with payload P, and
\* the frame of the empty payload decodes as the end of the stream.
C17_RoundTripNonEmpty ==
    codec.stage = "done"
        => /\ FrameLayout
           /\ codec.p # <<>> => DecodedPayload
           /\ codec.p = <<>> => codec.got.err = ErrEOF

\* a payload of 256 bytes has gone through the frame codec
C17_Witness ==
    /\ codec.stage = "done"
    /\ Len(codec.p) = 256
    /\ codec.frame[4] = 1
    /\ codec.got.msg = codec.p

\* bit 0x80 of a flag byte
TrailerBitSet(flag) == (flag \div TrailerBit) % 2 = 1

\* the last RecvMsg of a server stream has read frame k of the body, whole
\* frames only and well-formed data frames before it
ReadFrame(k) ==
    /\ resp.kind = "response" /\ resp.code = StatusOK
    /\ last["a"].op = "RecvMsg"
    /\ nRecv = k /\ k \in 1 .. Len(resp.frames)
    /\ ss.body = Flatten(SubSeq(resp.frames, k + 1, Len(resp.frames)))
    /\ resp.frames[k].payload # <<>>
    /\ \A i \in 1 .. k - 1 : GoodData(resp.frames[i])

\* C18: on the server-stream receive path a frame is taken for a trailer
\* frame exactly when bit 0x80 of its flag byte is set, and for a data frame
\* exactly when it is clear, whatever the other bits are.
C18_TrailerBitClassifies ==
    \A k \in 1 .. MaxFrames + 1 :
        ReadFrame(k) =>
            IF TrailerBitSet(resp.frames[k].flag)
            THEN ss.closed /\ ~last["a"].msg.set
            ELSE /\ ~ss.closed
                 /\ CodecUnmarshal(resp.frames[k].payload).ok
                        => /\ last["a"].err = NilErr
                           /\ last["a"].msg =
                                  [set |-> TRUE,
                                   v |-> CodecUnmarshal(resp.frames[k].payload).v]

\* positions of the messages of one kind on the socket
WireKind(k) == { i \in 1 .. Len(wire) : wire[i].kind = k }

\* C19: whatever the interleaving of Send calls, the request-header block is
\* written exactly once and before every data message, every data message
\* is 0x00 and one encoded frame, and each Send writes exactly one of them.
C19_HeaderOnceThenFrames ==
    /\ Cardinality(WireKind("header")) <= 1
    /\ \A i \in WireKind("frame") :
           /\ \E j \in WireKind("header") : j < i
           /\ \E m \in SendMsgs : wire[i].data = << 0 >> \o encodeRequestBody(m)
    /\ \A t \in Callers :
           /\ pc[t] = "sendFrame" => WireKind("header") # {}
           /\ (last[t].op = "SendMsg" /\ last[t].err = NilErr)
                  => last[t].wrote \in { 1, 2 }
    /\ (\A t \in Callers : last[t].op = "SendMsg" /\ last[t].err = NilErr)
           => \E t \in Callers : last[t].wrote = 1

\* two overlapping Sends have written the header block and two frames
C19_Witness ==
    /\ Len(wire) = 3
    /\ wire[1].kind = "header" /\ wire[2].kind = "frame" /\ wire[3].kind = "frame"
    /\ last["a"].op = "SendMsg" /\ last["a"].wrote = 2
    /\ last["b"].op = "SendMsg" /\ last["b"].wrote = 1
    /\ wire[2].data[1] = 0

\* C20: the request-header block written on the first send names the codec
\* selected for the call in its content-type, application/grpc-web+<name>,
\* and carries x-grpc-web: 1.
C20_ContentTypeNamesCodec ==
    \A i \in WireKind("header") :
        wire[i].data = << ContentTypeLine(codec.name), 250 >>

\* a socket message that carries one response frame
IsFrameMsg(m) ==
    m.kind = "msg" /\ \E f \in WSFrames : m.data = EncodeFrame(f)

\* C21: over any interleaving of Receive calls on one socket the preamble is
\* consumed once, by the first Receive: the first message is dropped, the
\* second is parsed into the cached header, and no later step takes a frame
\* message for preamble, takes a preamble message for a frame, or parses
\* the header again.
C21_PreambleConsumedOnce ==
    [][ /\ \A t \in Callers :
            /\ (pc[t] = "pre1" /\ pc'[t] = "pre2")
                   => /\ Head(inbox) = Msg("msg", <<>>)
                      /\ inbox' = Tail(inbox)
                      /\ wst'.header = NilMD
            /\ (pc[t] = "pre2" /\ pc'[t] # "pre2" /\ inbox' # inbox)
                   => /\ Head(inbox).data \in HeaderBlocks
                      /\ wst.header = NilMD
                      /\ wst'.header = ParseBlock(NewMD, Head(inbox).data)
            /\ (pc[t] \in { "rxMsg", "rxNext" } /\ pc'[t] # pc[t]
                    /\ inbox' # inbox)
                   => IsFrameMsg(Head(inbox)) /\ wst'.header = wst.header
            /\ (pc'[t] = "pre1" /\ pc[t] # "pre1") => wst.resOnce = "new"
        /\ wst.header # NilMD => wst'.header = wst.header
        /\ wst.resOnce = "done" => wst'.resOnce = "done"
        /\ wst.resOnce # "new" => wst'.resOnce # "new"
      ]_vars

\* both callers have received on the socket after the preamble was parsed,
\* one of them a message
C21_Witness ==
    /\ wst.resOnce = "done" /\ ~wst.header.nil
    /\ last["a"].op = "RecvMsg" /\ last["a"].io /\ last["a"].err = NilErr
    /\ last["b"].op = "RecvMsg" /\ last["b"].io

\* C22: when the peer has closed the socket and a Receive that was reading
\* a frame returns an error, the error is io.EOF for a normal closure and
\* io.ErrUnexpectedEOF for an abnormal closure, at whichever read of Receive
\* the close was observed.
C22_CloseCodeMapsToEOF ==
    \A t \in Callers :
        (/\ last[t].op = "RecvMsg" /\ last[t].io
         /\ last[t].rx # "nil"
         /\ inbox # <<>> /\ Head(inbox).kind = "close")
            => last[t].rx = IF Head(inbox).code = "normal" THEN "EOF"
                            ELSE "UnexpectedEOF"

\* C23: when the read of either preamble message fails during the first
\* Receive, that Receive returns to its caller with the failure: its next
\* step is not another socket read.
C23_PreambleFailureReturned ==
    [][ \A t \in Callers :
            (/\ pc[t] \in { "pre1", "pre2" } /\ pc'[t] # pc[t]
             /\ inbox # <<>> /\ Head(inbox).kind = "close")
                => /\ pc'[t] = "idle"
                   /\ last'[t].op = "RecvMsg" /\ last'[t].err # NilErr
      ]_vars

\* a step of the server stream in which SendMsg returns
SendMsgStep == last'["a"].op = "SendMsg" /\ last' # last

C25_MessageOptionalInTrailersOnly ==
    \A t \in Callers :
        (/\ last[t].op = "RecvMsg" /\ last[t].rx = "UnexpectedEOF"
         /\ cs.trailersOnly
         /\ cs.trailerMD.st # <<>> /\ Atoi(cs.trailerMD.st[1]) >= 0
         /\ cs.trailerMD.gm = <<>>)
            => last[t].err =
                   StatusErr(StatusNew(Atoi(cs.trailerMD.st[1]), <<>>))

\* the status and the trailer metadata a trailer frame carries
FrameTrailer(f) == ParseStatusAndTrailer(f.payload, Len(f.payload))

\* the peer has sent exactly one data frame and then one trailer frame
SentDataThenTrailer ==
    /\ Len(srv.log) = 2
    /\ ~TrailerBitSet(srv.log[1].flag)
    /\ TrailerBitSet(srv.log[2].flag)

\* C26: on a client stream, when after CloseSend the peer has sent one data
\* frame and one trailer frame, each as one socket message, and closed, the
\* RecvMsg that decodes the data frame also stores the trailer and returns
\* the trailer's status; after any other frame sequence RecvMsg does not
\* return success.
C26_OneRecvDataThenTrailer ==
    shape = "client" =>
        \A t \in Callers :
            (/\ last[t].op = "RecvMsg" /\ last[t].io
             /\ last[t].at.closeSendReturned
             /\ srv.phase = "closed")
                => /\ (SentDataThenTrailer /\ last[t].msg.set)
                          => /\ last[t].err =
                                    StatusErr(FrameTrailer(srv.log[2]).status)
                             /\ cs.trailerMD = FrameTrailer(srv.log[2]).trailer
                   /\ last[t].err = NilErr => SentDataThenTrailer

\* the peer has sent N data frames and then a trailer frame with status OK
SentDataThenOKTrailer ==
    /\ Len(srv.log) >= 1
    /\ \A i \in 1 .. Len(srv.log) - 1 : ~TrailerBitSet(srv.log[i].flag)
    /\ TrailerBitSet(srv.log[Len(srv.log)].flag)
    /\ FrameTrailer(srv.log[Len(srv.log)]).status.code = OK

\* C27: on a bidi stream no message of the peer is lost. When the peer has
\* sent N data frames and an OK trailer frame, each as one socket message,
\* and closed, a RecvMsg that returns a message leaves every later frame on
\* the socket, and the RecvMsg that has read to the end of what was sent
\* returns io.EOF with the trailer captured.
C27_BidiDeliversAllInOrder ==
    (shape = "bidi" /\ SentDataThenOKTrailer /\ srv.phase = "closed")
        => \A t \in Callers :
               (last[t].op = "RecvMsg" /\ last[t].io)
                   => /\ (inbox = << CloseMsg("normal") >> /\ ~last[t].msg.set)
                             => /\ last[t].err = ErrEOF
                                /\ cs.closed
                                /\ cs.trailerMD =
                                       FrameTrailer(srv.log[Len(srv.log)]).trailer
                      /\ (last[t].err = NilErr /\ Len(srv.log) = 2
                              /\ ~cs.closed)
                             => \E i \in 1 .. Len(inbox) :
                                    inbox[i] =
                                        Msg("msg", EncodeFrame(srv.log[2]))

\* C28: on a client or bidi stream a Header() call made after the transport
\* has parsed the response-header block returns that block's metadata, also
\* when an earlier Header() call had cached a result before the block
\* arrived.  (A trailers-only stream, whose Header() returns nil, is left
\* aside.)
C28_HeaderAfterParseIsBlock ==
    \A t \in Callers :
        (/\ last[t].op = "Header" /\ pc[t] = "idle"
         /\ ~wst.header.nil /\ ~cs.trailersOnly)
            => last[t].md = wst.header

\* what the first RecvMsg of the server stream returns when the body hands
\* over the 5 header bytes in one read
WholeRead ==
    ssRecv([NoServerStream EXCEPT !.header = toMetadata(resp.hdr),
                                  !.resNil = FALSE,
                                  !.body = Flatten(resp.frames)],
           headerLen)

\* C29: the result of a server-stream RecvMsg depends on the bytes of the
\* body only. When the body starts with a frame that has a payload, the first
\* RecvMsg returns what it returns when the 5 header bytes come in one read,
\* however the body splits them over its reads.
C29_RecvIndependentOfReadSizes ==
    (/\ shape = "server"
     /\ resp.kind = "response" /\ resp.code = StatusOK
     /\ resp.frames # <<>> /\ resp.frames[1].payload # <<>>
     /\ last["a"].op = "RecvMsg" /\ last["a"].io /\ nRecv = 1)
        => /\ last["a"].err = WholeRead.err
           /\ last["a"].msg = WholeRead.msg

=============================================================================
